---- MODULE Spec2Model ----
(***************************************************************************)
(* Backend of the classification pipeline: the device / model / result     *)
(* store (src/Backend/app/repositories), the services on top of it         *)
(* (src/Backend/app/services) and the HTTP controllers                     *)
(* (src/Backend/app/controllers).                                          *)
(*                                                                         *)
(* The relational store is the committed content of the three tables, the *)
(* object store is the content of the S3 bucket.                           *)
(* Spec runs whole requests one after the other.  SpecList adds the        *)
(* listing of results.  SpecRace runs one set_model request and one        *)
(* delete-model request statement by statement (query, query, commit), so  *)
(* that other requests interleave with them.  SpecAuth sends the requests  *)
(* with an X-API-Key header through the routes.  SpecFail runs the         *)
(* handlers while the database cannot be reached.  SpecPi adds the         *)
(* Raspberry Pi client (src/RasberryPiApp/pi_client.py), and SpecPiLive    *)
(* the fairness of its loop.  SpecPiThreads runs the client's start(),     *)
(* stop() and the threads of its classification loop step by step.         *)
(* SpecArtifact uploads, downloads and deletes model files of several      *)
(* names and contents.  SpecReplay sends a result submission again.        *)
(* SpecDesktop is the desktop application's ApiService                     *)
(* (src/DesktopApp/app/services/api_service.py): its response cache, its   *)
(* workers and its retry block.                                            *)
(***************************************************************************)
EXTENDS Integers, Sequences, FiniteSets, TLC

\* ------------------------------------------------------------------ bounds
MaxDevices == 2
MaxModels == 2
MaxResults == 1
MaxTime == 1
MaxLimit == 1
\* the rows of the results table when a submission is sent again (SpecReplay)
MaxReplayResults == 2
\* the classification-loop threads one PiClassifier starts (SpecPiThreads)
MaxLoopThreads == 2
\* the desktop clock: it advances by ClockStep seconds up to MaxClock, and
\* at most MaxWorkers requests of the desktop application are in flight
\* (SpecDesktop)
ClockStep == 30
MaxClock == 60
MaxWorkers == 1

\* --------------------------------------------------------------- constants
\* Python None for a model id / a device id (ids themselves are 1, 2, ...)
NoModel == 0
NoDevice == 0
\* request.args.get('limit', 50)
DefaultLimit == 50
\* current_app.config['API_KEY'] (DevelopmentConfig)
API_KEY == "dev-api-key-please-change-in-production"
\* request.headers.get('X-API-Key') when the request has no such header
NoHeader == "<no header>"
\* data.get('status') when the body has no status
NoStatus == "<absent>"
\* metadata None in a heartbeat reply
NoMetadata == "<none>"

DeviceIds == 1..MaxDevices
ModelIds == 1..MaxModels
DeviceNames == {"pi-1"}
Metadatas == {"meta-a"}
\* the metadata documents a client uploads: one that parses, one that does not
MetadataFiles == {"meta-a.json", "broken.json"}
\* the names and the bytes of the model files a client uploads
Filenames == {"model.tflite"}
FileContents == {"tflite-a"}
ModelFiles == [filename : Filenames, bytes : FileContents]
\* how a call to S3 ends: it works, S3 answers with an error (botocore
\* ClientError), or S3 is not reached (botocore EndpointConnectionError,
\* which is not a ClientError)
S3Outcomes == {"ok", "ClientError", "EndpointConnectionError"}
StatusInputs == {NoStatus, "", "running"}
Limits == (0..MaxLimit) \cup {DefaultLimit}
\* what a request carries as X-API-Key: nothing, an empty or a wrong value,
\* or the configured key
HeaderValues == {NoHeader, "", "wrong-key", API_KEY}

VARIABLES
  devices,       \* table devices: device_id -> row
  models,        \* table models: model_id -> row
  results,       \* table results: sequence of rows, result_id = index
  nextDeviceId,  \* the next fresh uuid4 for a device
  nextModelId,   \* the next fresh uuid4 for a model
  now,           \* datetime.utcnow()
  last,          \* the last completed request and its HTTP response
  asg,           \* the set_model request in flight (SpecRace)
  del,           \* the delete-model request in flight (SpecRace)
  s3,            \* the S3 bucket: key -> bytes of the object stored there
  pi,            \* the Raspberry Pi client (SpecPi)
  up,            \* whether the Pi client reaches the server (SpecPi)
  desk           \* the desktop application's ApiService (SpecDesktop)

db == <<devices, models, results, nextDeviceId, nextModelId>>
inflight == <<asg, del>>
client == <<pi, up>>
outside == <<s3, pi, up>>
vars == <<devices, models, results, nextDeviceId, nextModelId, now, last, asg, del,
          s3, pi, up, desk>>

\* ------------------------------------------------------------ small helpers
Remove(f, k) == [x \in (DOMAIN f) \ {k} |-> f[x]]

Response(op, http, body) ==
  [op |-> op, http |-> http, body |-> body]

Error(msg) == [error |-> msg]

\* Python truthiness of a status value: None and "" are falsy
StatusTruthy(status) == status # NoStatus /\ status # ""

\* json.loads(metadata_file.read().decode('utf-8')): returns [raised, value]
json_loads(text) ==
  IF text = "meta-a.json"
  THEN [raised |-> FALSE, value |-> "meta-a"]
  ELSE [raised |-> TRUE, value |-> NoMetadata]

\* metadata.get('project_name', 'unknown')
project_name(metadata) ==
  IF metadata = "meta-a" THEN "proj-a" ELSE "unknown"

\* werkzeug secure_filename: blanks become underscores, path parts are dropped
secure_filename(filename) ==
  CASE filename = "my model.tflite" -> "my_model.tflite"
    [] filename = "../model.tflite" -> "model.tflite"
    [] OTHER -> filename

\* s3_key = f"models/{metadata.get('project_name', 'unknown')}/{filename}"
S3Key(metadata, filename) ==
  <<"models", project_name(metadata), filename>>

\* --------------------------------------------------------- DeviceRepository
\* Device.query.filter_by(device_id=device_id, is_active=True).first()
ActiveDevice(devs, device_id) ==
  device_id \in DOMAIN devs /\ devs[device_id].is_active

DeviceRepository_create(devs, device_id, device_name, t) ==
  devs @@ (device_id :> [device_name |-> device_name,
                         last_active |-> t,
                         current_model_id |-> NoModel,
                         status |-> "idle",
                         is_active |-> TRUE])

\* a faulty variant: the lookup takes any row and the assignment revives it
DeviceRepository_update_model_reviving(devs, device_id, model_id, t) ==
  IF device_id \notin DOMAIN devs
  THEN [found |-> FALSE, devices |-> devs]
  ELSE [found |-> TRUE,
        devices |-> [devs EXCEPT ![device_id].current_model_id = model_id,
                                 ![device_id].last_active = t,
                                 ![device_id].is_active = TRUE]]

\* returns [found, devices]
DeviceRepository_update_model(devs, device_id, model_id, t) ==
  IF ~ActiveDevice(devs, device_id)
  THEN [found |-> FALSE, devices |-> devs]
  ELSE [found |-> TRUE,
        devices |-> [devs EXCEPT ![device_id].current_model_id = model_id,
                                 ![device_id].last_active = t]]

\* a faulty variant: the lookup forgets the is_active filter
DeviceRepository_update_heartbeat_anyRow(devs, device_id, status, t) ==
  IF device_id \notin DOMAIN devs
  THEN [found |-> FALSE, devices |-> devs]
  ELSE [found |-> TRUE,
        devices |-> [devs EXCEPT ![device_id].last_active = t,
                                 ![device_id].status =
                                     IF StatusTruthy(status) THEN status ELSE @]]

DeviceRepository_update_heartbeat(devs, device_id, status, t) ==
  IF ~ActiveDevice(devs, device_id)
  THEN [found |-> FALSE, devices |-> devs]
  ELSE [found |-> TRUE,
        devices |-> [devs EXCEPT ![device_id].last_active = t,
                                 ![device_id].status =
                                     IF StatusTruthy(status) THEN status ELSE @]]

\* a faulty variant: the soft delete sets the flag and leaves the status
DeviceRepository_delete_flagOnly(devs, device_id) ==
  IF device_id \notin DOMAIN devs
  THEN [found |-> FALSE, devices |-> devs]
  ELSE [found |-> TRUE,
        devices |-> [devs EXCEPT ![device_id].is_active = FALSE]]

DeviceRepository_delete(devs, device_id) ==
  IF device_id \notin DOMAIN devs
  THEN [found |-> FALSE, devices |-> devs]
  ELSE [found |-> TRUE,
        devices |-> [devs EXCEPT ![device_id].is_active = FALSE,
                                 ![device_id].status = "inactive"]]

\* Result.device_id is a non-nullable foreign key and Device.results has no
\* delete cascade: deleting a device row that results reference makes the
\* commit raise, and the session is rolled back.
ResultsOfDevice(res, device_id) ==
  {i \in 1..Len(res) : res[i].device_id = device_id}

\* returns [found, raised, devices]
DeviceRepository_hard_delete(devs, res, device_id) ==
  IF device_id \notin DOMAIN devs
  THEN [found |-> FALSE, raised |-> FALSE, devices |-> devs]
  ELSE IF ResultsOfDevice(res, device_id) # {}
  THEN [found |-> TRUE, raised |-> TRUE, devices |-> devs]
  ELSE [found |-> TRUE, raised |-> FALSE, devices |-> Remove(devs, device_id)]

\* ---------------------------------------------------------- ModelRepository
\* ModelRepository.get_by_id(model_id), include_inactive = False
ModelRepository_get_by_id(mods, model_id) ==
  model_id \in DOMAIN mods /\ mods[model_id].is_active

\* a faulty variant: the row records the key of the file name as it was sent
ModelRepository_create_rawName(mods, bucket, model_id, model_file, metadata, s3_outcome) ==
  LET filename == secure_filename(model_file.filename)
      s3_key == S3Key(metadata, filename)
  IN IF s3_outcome # "ok"
     THEN [raised |-> TRUE,
           error |-> IF s3_outcome = "ClientError"
                     THEN "Failed to upload model to S3" ELSE s3_outcome,
           models |-> mods, s3 |-> bucket]
     ELSE [raised |-> FALSE, error |-> "",
           models |-> mods @@ (model_id :>
                      [model_metadata |-> metadata,
                       s3_key |-> S3Key(metadata, model_file.filename),
                       is_active |-> TRUE]),
           s3 |-> [k \in DOMAIN bucket \cup {s3_key} |->
                     IF k = s3_key THEN model_file.bytes ELSE bucket[k]]]

\* a faulty variant: the row is committed first and the file uploaded after
ModelRepository_create_recordFirst(mods, bucket, model_id, model_file, metadata, s3_outcome) ==
  LET filename == secure_filename(model_file.filename)
      s3_key == S3Key(metadata, filename)
      committed == mods @@ (model_id :> [model_metadata |-> metadata,
                                         s3_key |-> s3_key,
                                         is_active |-> TRUE])
  IN IF s3_outcome # "ok"
     THEN [raised |-> TRUE, error |-> "Failed to upload model to S3",
           models |-> committed, s3 |-> bucket]
     ELSE [raised |-> FALSE, error |-> "",
           models |-> committed,
           s3 |-> [k \in DOMAIN bucket \cup {s3_key} |->
                     IF k = s3_key THEN model_file.bytes ELSE bucket[k]]]

\* returns [raised, error, models, s3]; s3_outcome is that of upload_fileobj
ModelRepository_create(mods, bucket, model_id, model_file, metadata, s3_outcome) ==
  LET filename == secure_filename(model_file.filename)
      s3_key == S3Key(metadata, filename)
  IN IF s3_outcome # "ok"
     THEN [raised |-> TRUE,
           error |-> IF s3_outcome = "ClientError"
                     THEN "Failed to upload model to S3" ELSE s3_outcome,
           models |-> mods, s3 |-> bucket]
     ELSE [raised |-> FALSE, error |-> "",
           models |-> mods @@ (model_id :> [model_metadata |-> metadata,
                                            s3_key |-> s3_key,
                                            is_active |-> TRUE]),
           s3 |-> [k \in DOMAIN bucket \cup {s3_key} |->
                     IF k = s3_key THEN model_file.bytes ELSE bucket[k]]]

\* a faulty variant: the sweep looks at active devices only
AssignedDevices_activeOnly(devs, model_id) ==
  {d \in DOMAIN devs : devs[d].is_active /\ devs[d].current_model_id = model_id}

\* Device.query.filter_by(current_model_id=model_id).all()
AssignedDevices(devs, model_id) ==
  {d \in DOMAIN devs : devs[d].current_model_id = model_id}

\* for device in devices: current_model_id = None; status = 'idle'
Unassign(devs, swept) ==
  [d \in DOMAIN devs |->
     IF d \in swept
     THEN [devs[d] EXCEPT !.current_model_id = NoModel, !.status = "idle"]
     ELSE devs[d]]

\* returns [found, devices, models]
ModelRepository_delete(devs, mods, model_id) ==
  IF model_id \notin DOMAIN mods
  THEN [found |-> FALSE, devices |-> devs, models |-> mods]
  ELSE [found |-> TRUE,
        devices |-> Unassign(devs, AssignedDevices(devs, model_id)),
        models |-> [mods EXCEPT ![model_id].is_active = FALSE]]

\* Result.model_id is a non-nullable foreign key and Model.results has no
\* delete cascade (see ResultsOfDevice).
ResultsOfModel(res, model_id) ==
  {i \in 1..Len(res) : res[i].model_id = model_id}

\* s3_client.delete_object(Bucket, Key) with the outcome s3_outcome
S3Delete(bucket, s3_key, s3_outcome) ==
  IF s3_outcome = "ok" THEN Remove(bucket, s3_key) ELSE bucket

\* returns [found, raised, error, devices, models, s3].  The try around
\* delete_object catches ClientError only, so any other exception leaves
\* hard_delete before db.session.delete.  The object is deleted before the
\* commit, so it is gone also when the commit raises.
ModelRepository_hard_delete(devs, mods, res, bucket, model_id, s3_outcome) ==
  IF model_id \notin DOMAIN mods
  THEN [found |-> FALSE, raised |-> FALSE, error |-> "",
        devices |-> devs, models |-> mods, s3 |-> bucket]
  ELSE IF s3_outcome \notin {"ok", "ClientError"}
  THEN [found |-> TRUE, raised |-> TRUE, error |-> s3_outcome,
        devices |-> devs, models |-> mods, s3 |-> bucket]
  ELSE IF ResultsOfModel(res, model_id) # {}
  THEN [found |-> TRUE, raised |-> TRUE, error |-> "IntegrityError",
        devices |-> devs, models |-> mods,
        s3 |-> S3Delete(bucket, mods[model_id].s3_key, s3_outcome)]
  ELSE [found |-> TRUE, raised |-> FALSE, error |-> "",
        devices |-> Unassign(devs, AssignedDevices(devs, model_id)),
        models |-> Remove(mods, model_id),
        s3 |-> S3Delete(bucket, mods[model_id].s3_key, s3_outcome)]

\* --------------------------------------------------------- ResultRepository
\* a faulty variant: a submission for a device and model that have a row
\* already overwrites that row
ResultRepository_create_upsert(devs, mods, res, device_id, model_id, t) ==
  IF ~ActiveDevice(devs, device_id) \/ ~ModelRepository_get_by_id(mods, model_id)
  THEN [created |-> FALSE, devices |-> devs, results |-> res]
  ELSE LET row == [device_id |-> device_id, model_id |-> model_id,
                   timestamp |-> t]
           same == {i \in 1..Len(res) : /\ res[i].device_id = device_id
                                         /\ res[i].model_id = model_id}
       IN [created |-> TRUE,
           devices |-> [devs EXCEPT ![device_id].last_active = t],
           results |-> IF same = {}
                       THEN Append(res, row)
                       ELSE [i \in 1..Len(res) |->
                               IF i \in same THEN row ELSE res[i]]]

\* a faulty variant: a result is accepted only for the model assigned to the device
ResultRepository_create_assignedOnly(devs, mods, res, device_id, model_id, t) ==
  IF \/ ~ActiveDevice(devs, device_id)
     \/ ~ModelRepository_get_by_id(mods, model_id)
     \/ devs[device_id].current_model_id # model_id
  THEN [created |-> FALSE, devices |-> devs, results |-> res]
  ELSE [created |-> TRUE,
        devices |-> [devs EXCEPT ![device_id].last_active = t],
        results |-> Append(res, [device_id |-> device_id,
                                 model_id |-> model_id,
                                 timestamp |-> t])]

\* returns [created, devices, results]
ResultRepository_create(devs, mods, res, device_id, model_id, t) ==
  IF ~ActiveDevice(devs, device_id) \/ ~ModelRepository_get_by_id(mods, model_id)
  THEN [created |-> FALSE, devices |-> devs, results |-> res]
  ELSE [created |-> TRUE,
        devices |-> [devs EXCEPT ![device_id].last_active = t],
        results |-> Append(res, [device_id |-> device_id,
                                 model_id |-> model_id,
                                 timestamp |-> t])]

\* Result.query.filter_by(result_id=result_id).first(); <<>> is None
ResultRepository_get_by_id(res, result_id) ==
  IF result_id \in 1..Len(res) THEN res[result_id] ELSE <<>>

\* a faulty variant: the join filters on Device.is_active only
Listed_deviceOnly(devs, mods, res, device_id, model_id) ==
  {i \in 1..Len(res) :
     /\ ActiveDevice(devs, res[i].device_id)
     /\ (device_id # NoDevice => res[i].device_id = device_id)
     /\ (model_id # NoModel => res[i].model_id = model_id)}

\* the rows of Result JOIN Device JOIN Model with both is_active, filtered
Listed(devs, mods, res, device_id, model_id) ==
  {i \in 1..Len(res) :
     /\ ActiveDevice(devs, res[i].device_id)
     /\ ModelRepository_get_by_id(mods, res[i].model_id)
     /\ (device_id # NoDevice => res[i].device_id = device_id)
     /\ (model_id # NoModel => res[i].model_id = model_id)}

\* the orders ORDER BY timestamp DESC may produce (ties in any order)
NewestFirst(res, rows) ==
  {s \in [1..Cardinality(rows) -> rows] :
     /\ \A i, j \in DOMAIN s : i # j => s[i] # s[j]
     /\ \A i, j \in DOMAIN s : i < j => res[s[i]].timestamp >= res[s[j]].timestamp}

\* if limit: query = query.limit(limit)
ApplyLimit(s, limit) ==
  IF limit # 0 /\ limit < Len(s) THEN SubSeq(s, 1, limit) ELSE s

\* the set of lists of result ids the query may return
ResultRepository_get_all(devs, mods, res, device_id, model_id, limit) ==
  {ApplyLimit(s, limit) :
     s \in NewestFirst(res, Listed(devs, mods, res, device_id, model_id))}

\* ----------------------------------------------------------- DeviceService
\* a faulty variant: the model is not looked up before it is assigned
DeviceService_set_device_model_unchecked(devs, mods, device_id, model_id, t) ==
  LET r == DeviceRepository_update_model(devs, device_id, model_id, t)
  IN IF ~r.found
     THEN [success |-> FALSE, error |-> "Device not found", devices |-> devs]
     ELSE [success |-> TRUE, error |-> "", devices |-> r.devices]

\* a faulty variant: the device is looked up before the model
DeviceService_set_device_model_deviceFirst(devs, mods, device_id, model_id, t) ==
  LET r == DeviceRepository_update_model(devs, device_id, model_id, t)
  IN IF ~r.found
     THEN [success |-> FALSE, error |-> "Device not found", devices |-> devs]
     ELSE IF model_id # NoModel /\ ~ModelRepository_get_by_id(mods, model_id)
     THEN [success |-> FALSE, error |-> "Model not found", devices |-> devs]
     ELSE [success |-> TRUE, error |-> "", devices |-> r.devices]

\* returns [success, error, devices]
DeviceService_set_device_model(devs, mods, device_id, model_id, t) ==
  IF model_id # NoModel /\ ~ModelRepository_get_by_id(mods, model_id)
  THEN [success |-> FALSE, error |-> "Model not found", devices |-> devs]
  ELSE LET r == DeviceRepository_update_model(devs, device_id, model_id, t)
       IN IF ~r.found
          THEN [success |-> FALSE, error |-> "Device not found", devices |-> devs]
          ELSE [success |-> TRUE, error |-> "", devices |-> r.devices]

\* a faulty variant: the download is signalled only to a device that is not running yet
HeartbeatReply_onceOnly(mods, d) ==
  LET model_id == d.current_model_id
      found == model_id # NoModel /\ ModelRepository_get_by_id(mods, model_id)
  IN [model_id |-> model_id,
      should_download |-> found /\ d.status # "running",
      metadata |-> IF found THEN mods[model_id].model_metadata ELSE NoMetadata]

\* a faulty variant: the reply names the model only when the model was found
HeartbeatReply_nullOrphan(mods, d) ==
  LET model_id == d.current_model_id
      found == model_id # NoModel /\ ModelRepository_get_by_id(mods, model_id)
  IN [model_id |-> IF found THEN model_id ELSE NoModel,
      should_download |-> found,
      metadata |-> IF found THEN mods[model_id].model_metadata ELSE NoMetadata]

\* the reply of a heartbeat for a device whose row is d
HeartbeatReply(mods, d) ==
  LET model_id == d.current_model_id
      found == model_id # NoModel /\ ModelRepository_get_by_id(mods, model_id)
  IN [model_id |-> model_id,
      should_download |-> found,
      metadata |-> IF found THEN mods[model_id].model_metadata ELSE NoMetadata]

\* returns [ok, body, devices]
DeviceService_update_heartbeat(devs, mods, device_id, status, t) ==
  LET r == DeviceRepository_update_heartbeat(devs, device_id, status, t)
  IN IF ~r.found
     THEN [ok |-> FALSE, body |-> Error("Device not found"), devices |-> devs]
     ELSE [ok |-> TRUE, body |-> HeartbeatReply(mods, r.devices[device_id]),
           devices |-> r.devices]

\* returns [success, error, devices]
DeviceService_delete_device(devs, res, device_id, hard_delete) ==
  IF hard_delete
  THEN LET r == DeviceRepository_hard_delete(devs, res, device_id)
       IN IF r.raised
          THEN [success |-> FALSE, error |-> "IntegrityError", devices |-> devs]
          ELSE IF ~r.found
          THEN [success |-> FALSE,
                error |-> "Device not found or could not be deleted",
                devices |-> devs]
          ELSE [success |-> TRUE, error |-> "", devices |-> r.devices]
  ELSE LET r == DeviceRepository_delete(devs, device_id)
       IN IF ~r.found
          THEN [success |-> FALSE,
                error |-> "Device not found or could not be deleted",
                devices |-> devs]
          ELSE [success |-> TRUE, error |-> "", devices |-> r.devices]

\* ------------------------------------------------------------ ModelService
\* returns [success, error, models, s3]; model_id is the fresh uuid4
ModelService_create_model(mods, bucket, model_id, model_file, metadata_file, s3_outcome) ==
  LET parsed == json_loads(metadata_file)
  IN IF parsed.raised
     THEN [success |-> FALSE, error |-> "JSONDecodeError",
           models |-> mods, s3 |-> bucket]
     ELSE LET r == ModelRepository_create(mods, bucket, model_id, model_file,
                                          parsed.value, s3_outcome)
          IN IF r.raised
             THEN [success |-> FALSE, error |-> r.error,
                   models |-> r.models, s3 |-> r.s3]
             ELSE [success |-> TRUE, error |-> "",
                   models |-> r.models, s3 |-> r.s3]

\* returns [success, error, devices, models, s3]
ModelService_delete_model(devs, mods, res, bucket, model_id, hard_delete, s3_outcome) ==
  IF hard_delete
  THEN LET r == ModelRepository_hard_delete(devs, mods, res, bucket, model_id,
                                            s3_outcome)
       IN IF r.raised
          THEN [success |-> FALSE, error |-> r.error,
                devices |-> r.devices, models |-> r.models, s3 |-> r.s3]
          ELSE IF ~r.found
          THEN [success |-> FALSE,
                error |-> "Model not found or could not be deleted",
                devices |-> devs, models |-> mods, s3 |-> bucket]
          ELSE [success |-> TRUE, error |-> "",
                devices |-> r.devices, models |-> r.models, s3 |-> r.s3]
  ELSE LET r == ModelRepository_delete(devs, mods, model_id)
       IN IF ~r.found
          THEN [success |-> FALSE,
                error |-> "Model not found or could not be deleted",
                devices |-> devs, models |-> mods, s3 |-> bucket]
          ELSE [success |-> TRUE, error |-> "",
                devices |-> r.devices, models |-> r.models, s3 |-> bucket]

\* ModelRepository.get_download_url: the pre-signed URL names the bucket key
\* of the row; signing is a local computation, S3 is not called
PresignedUrl(s3_key) == [get_object |-> s3_key, ExpiresIn |-> 3600]

\* the body and the status of GET /api/models/<model_id>/download
ModelService_get_download_url(mods, model_id) ==
  IF ~ModelRepository_get_by_id(mods, model_id)
  THEN [http |-> 404, body |-> Error("Model not found or URL generation failed")]
  ELSE [http |-> 200,
        body |-> [success |-> TRUE,
                  download_url |-> PresignedUrl(mods[model_id].s3_key),
                  expires_in |-> 3600]]

\* ----------------------------------------------------------- ResultService
\* returns [success, error, devices, results]
ResultService_create_result(devs, mods, res, device_id, model_id, t) ==
  LET r == ResultRepository_create(devs, mods, res, device_id, model_id, t)
  IN IF ~r.created
     THEN [success |-> FALSE, error |-> "Device or model not found",
           devices |-> devs, results |-> res]
     ELSE [success |-> TRUE, error |-> "",
           devices |-> DeviceRepository_update_heartbeat(
                          r.devices, device_id, NoStatus, t).devices,
           results |-> r.results]

\* 404 if 'not found' in error else 400
NotFoundOr400(error) ==
  IF error \in {"Model not found", "Device not found", "Device or model not found"}
  THEN 404 ELSE 400

\* -------------------------------------------------------------------- Init
Idle == [pc |-> "idle"]

\* the Pi client before PiClassifier(...) is constructed
NotStarted == [pc |-> "off"]

\* last_error_time None
NoTime == -1
\* a slot of the thread pool that runs no worker
NoWorker == [state |-> "free"]
\* no request_finished signal emitted yet
NoSignal == [endpoint |-> <<>>, success |-> FALSE, data |-> [error_type |-> "none"]]
\* ApiService(config) after __init__; time is the desktop's datetime.now()
ApiService ==
  [time |-> 0,
   cache |-> [k \in {} |-> NoSignal],
   connection_error |-> FALSE,
   last_error_time |-> NoTime,
   workers |-> [i \in 1..MaxWorkers |-> NoWorker],
   signal |-> NoSignal]

Init ==
  /\ devices = <<>>
  /\ models = <<>>
  /\ results = <<>>
  /\ nextDeviceId = 1
  /\ nextModelId = 1
  /\ now = 0
  /\ last = Response("none", 0, <<>>)
  /\ asg = Idle
  /\ del = Idle
  /\ s3 = <<>>
  /\ pi = NotStarted
  /\ up = TRUE
  /\ desk = ApiService

\* the clock advances between two readings of datetime.utcnow()
Tick ==
  /\ now < MaxTime
  /\ now' = now + 1
  /\ UNCHANGED <<db, last, inflight, outside, desk>>

\* ------------------------------------------------------------- controllers
\* POST /api/devices/register
register_device(device_name) ==
  /\ nextDeviceId <= MaxDevices
  /\ devices' = DeviceRepository_create(devices, nextDeviceId, device_name, now)
  /\ nextDeviceId' = nextDeviceId + 1
  /\ last' = Response("register_device", 200, [device_id |-> nextDeviceId])
  /\ UNCHANGED <<models, results, nextModelId, now, inflight, outside, desk>>

\* POST /api/devices/<device_id>/set_model
set_device_model(device_id, model_id) ==
  LET r == DeviceService_set_device_model(devices, models, device_id, model_id, now)
  IN /\ devices' = r.devices
     /\ last' = Response("set_device_model",
                         IF r.success THEN 200 ELSE NotFoundOr400(r.error),
                         Error(r.error))
     /\ UNCHANGED <<models, results, nextDeviceId, nextModelId, now, inflight, outside, desk>>

\* POST /api/devices/<device_id>/heartbeat
device_heartbeat(device_id, status) ==
  LET r == DeviceService_update_heartbeat(devices, models, device_id, status, now)
  IN /\ devices' = r.devices
     /\ last' = Response("device_heartbeat",
                         IF r.ok THEN 200 ELSE 404, r.body)
     /\ UNCHANGED <<models, results, nextDeviceId, nextModelId, now, inflight, outside, desk>>

\* a faulty variant: a hard delete first purges the results of the device
delete_device_purging(device_id, hard_delete) ==
  LET kept == SelectSeq(results, LAMBDA r : ~hard_delete \/ r.device_id # device_id)
      r == DeviceService_delete_device(devices, kept, device_id, hard_delete)
  IN /\ devices' = r.devices
     /\ results' = kept
     /\ last' = Response("delete_device",
                         IF r.success THEN 200 ELSE 404, Error(r.error))
     /\ UNCHANGED <<models, nextDeviceId, nextModelId, now, inflight, outside, desk>>

\* DELETE /api/devices/<device_id>?hard=
delete_device(device_id, hard_delete) ==
  LET r == DeviceService_delete_device(devices, results, device_id, hard_delete)
  IN /\ devices' = r.devices
     /\ last' = Response("delete_device",
                         IF r.success THEN 200 ELSE 404, Error(r.error))
     /\ UNCHANGED <<models, results, nextDeviceId, nextModelId, now, inflight, outside, desk>>

\* POST /api/models/create; s3_outcome is the outcome of upload_fileobj
upload_model(model_file, metadata_file, s3_outcome) ==
  LET r == ModelService_create_model(models, s3, nextModelId, model_file,
                                     metadata_file, s3_outcome)
  IN /\ nextModelId <= MaxModels
     /\ models' = r.models
     /\ s3' = r.s3
     /\ nextModelId' = IF r.success THEN nextModelId + 1 ELSE nextModelId
     /\ last' = Response("upload_model",
                         IF r.success THEN 200 ELSE 500,
                         IF r.success THEN [model_id |-> nextModelId]
                                      ELSE Error(r.error))
     /\ UNCHANGED <<devices, results, nextDeviceId, now, inflight, client, desk>>

\* DELETE /api/models/<model_id>?hard=
\* s3_outcome is the outcome of delete_object
delete_model(model_id, hard_delete, s3_outcome) ==
  LET r == ModelService_delete_model(devices, models, results, s3,
                                     model_id, hard_delete, s3_outcome)
  IN /\ devices' = r.devices
     /\ models' = r.models
     /\ s3' = r.s3
     /\ last' = Response("delete_model",
                         IF r.success THEN 200 ELSE 404, Error(r.error))
     /\ UNCHANGED <<results, nextDeviceId, nextModelId, now, inflight, client, desk>>

\* POST /api/results, while the results table holds fewer than max_results rows
upload_result_within(device_id, model_id, max_results) ==
  LET r == ResultService_create_result(devices, models, results,
                                       device_id, model_id, now)
  IN /\ r.success => Len(results) < max_results
     /\ devices' = r.devices
     /\ results' = r.results
     /\ last' = Response("upload_result",
                         IF r.success THEN 200 ELSE NotFoundOr400(r.error),
                         IF r.success THEN [result_id |-> Len(r.results)]
                                      ELSE Error(r.error))
     /\ UNCHANGED <<models, nextDeviceId, nextModelId, now, inflight, outside, desk>>

\* POST /api/results
upload_result(device_id, model_id) ==
  upload_result_within(device_id, model_id, MaxResults)

\* GET /api/results?device_id=&model_id=&limit=
list_results(device_id, model_id, limit) ==
  \E listing \in ResultRepository_get_all(devices, models, results,
                                          device_id, model_id, limit) :
    /\ UNCHANGED <<db, now, inflight, outside, desk>>
    /\ last' = Response("list_results", 200, listing)

\* the requests that change the store, and the heartbeat
Next ==
  \/ Tick
  \/ \E n \in DeviceNames : register_device(n)
  \/ \E d \in DeviceIds, m \in ModelIds \cup {NoModel} : set_device_model(d, m)
  \/ \E d \in DeviceIds, s \in StatusInputs : device_heartbeat(d, s)
  \/ \E d \in DeviceIds, h \in BOOLEAN : delete_device(d, h)
  \/ \E f \in ModelFiles, md \in MetadataFiles, o \in S3Outcomes :
       upload_model(f, md, o)
  \/ \E m \in ModelIds, h \in BOOLEAN, o \in S3Outcomes : delete_model(m, h, o)
  \/ \E d \in DeviceIds, m \in ModelIds : upload_result(d, m)

Spec == Init /\ [][Next]_vars

\* the same, and the listing of results
NextList ==
  \/ Next
  \/ \E d \in DeviceIds \cup {NoDevice}, m \in ModelIds \cup {NoModel},
        l \in Limits : list_results(d, m, l)

SpecList == Init /\ [][NextList]_vars

\* ---------------------------------------------------------------- SpecAuth
\* The routes as a client calls them, with the X-API-Key header it sends.
\* require_api_key(f): 401 without running f unless the header is the
\* configured key.
require_api_key(op, api_key, f) ==
  IF api_key = NoHeader \/ api_key = ""
  THEN /\ last' = Response(op, 401, Error("Authentication required"))
       /\ UNCHANGED <<db, now, inflight, outside, desk>>
  ELSE IF api_key # API_KEY
  THEN /\ last' = Response(op, 401, Error("Authentication failed"))
       /\ UNCHANGED <<db, now, inflight, outside, desk>>
  ELSE f

\* routes without the decorator: the header is not looked at
request_register_device(api_key, device_name) ==
  register_device(device_name)

request_device_heartbeat(api_key, device_id, status) ==
  device_heartbeat(device_id, status)

request_upload_result(api_key, device_id, model_id) ==
  upload_result(device_id, model_id)

\* a faulty variant: the set_model route lacks the decorator
request_set_device_model_open(api_key, device_id, model_id) ==
  set_device_model(device_id, model_id)

\* routes under @require_api_key
request_set_device_model(api_key, device_id, model_id) ==
  require_api_key("set_device_model", api_key,
                  set_device_model(device_id, model_id))

request_delete_device(api_key, device_id, hard_delete) ==
  require_api_key("delete_device", api_key,
                  delete_device(device_id, hard_delete))

request_upload_model(api_key, model_file, metadata_file, s3_outcome) ==
  require_api_key("upload_model", api_key,
                  upload_model(model_file, metadata_file, s3_outcome))

request_delete_model(api_key, model_id, hard_delete, s3_outcome) ==
  require_api_key("delete_model", api_key,
                  delete_model(model_id, hard_delete, s3_outcome))

NextAuth ==
  \/ \E n \in DeviceNames : request_register_device(NoHeader, n)
  \/ \E d \in DeviceIds : request_device_heartbeat(NoHeader, d, "running")
  \/ \E d \in DeviceIds, m \in ModelIds : request_upload_result(NoHeader, d, m)
  \/ \E k \in HeaderValues :
       \/ \E d \in DeviceIds, m \in ModelIds \cup {NoModel} :
            request_set_device_model(k, d, m)
       \/ \E d \in DeviceIds, h \in BOOLEAN : request_delete_device(k, d, h)
       \/ \E f \in ModelFiles : request_upload_model(k, f, "meta-a.json", "ok")
       \/ \E m \in ModelIds, h \in BOOLEAN : request_delete_model(k, m, h, "ok")

SpecAuth == Init /\ [][NextAuth]_vars

\* ---------------------------------------------------------------- SpecFail
\* The same handlers while the database cannot be reached: the first query of
\* the repository raises sqlalchemy OperationalError, the `except Exception`
\* of the service turns it into an error value, and the controller picks the
\* status code from that value.  Nothing is committed.
OperationalError == "(psycopg2.OperationalError) could not connect to server"

\* DeviceService.update_heartbeat returns {'error': str(e)}; the controller
\* replies 404 for every result that has an 'error'
device_heartbeat_store_down(device_id, status) ==
  /\ last' = Response("device_heartbeat", 404, Error(OperationalError))
  /\ UNCHANGED <<db, now, inflight, outside, desk>>

\* DeviceService.set_device_model returns success False with str(e)
set_device_model_store_down(device_id, model_id) ==
  /\ last' = Response("set_device_model", NotFoundOr400(OperationalError),
                      Error(OperationalError))
  /\ UNCHANGED <<db, now, inflight, outside, desk>>

\* DeviceService.delete_device returns success False; the controller replies
\* 404 for every failure
delete_device_store_down(device_id, hard_delete) ==
  /\ last' = Response("delete_device", 404, Error(OperationalError))
  /\ UNCHANGED <<db, now, inflight, outside, desk>>

\* ModelService.delete_model returns success False before S3 is called
delete_model_store_down(model_id, hard_delete) ==
  /\ last' = Response("delete_model", 404, Error(OperationalError))
  /\ UNCHANGED <<db, now, inflight, outside, desk>>

\* ResultService.create_result returns success False with str(e)
upload_result_store_down(device_id, model_id) ==
  /\ last' = Response("upload_result", NotFoundOr400(OperationalError),
                      Error(OperationalError))
  /\ UNCHANGED <<db, now, inflight, outside, desk>>

StoreDown ==
  \/ \E d \in DeviceIds, st \in StatusInputs : device_heartbeat_store_down(d, st)
  \/ \E d \in DeviceIds, m \in ModelIds \cup {NoModel} :
       set_device_model_store_down(d, m)
  \/ \E d \in DeviceIds, h \in BOOLEAN : delete_device_store_down(d, h)
  \/ \E m \in ModelIds, h \in BOOLEAN : delete_model_store_down(m, h)
  \/ \E d \in DeviceIds, m \in ModelIds : upload_result_store_down(d, m)

NextFail ==
  \/ \E n \in DeviceNames : register_device(n)
  \/ \E f \in ModelFiles : upload_model(f, "meta-a.json", "ok")
  \/ \E d \in DeviceIds, m \in ModelIds \cup {NoModel} : set_device_model(d, m)
  \/ \E d \in DeviceIds : device_heartbeat(d, "running")
  \/ \E d \in DeviceIds : delete_device(d, FALSE)
  \/ \E m \in ModelIds : delete_model(m, FALSE, "ok")
  \/ \E d \in DeviceIds, m \in ModelIds : upload_result(d, m)
  \/ StoreDown

SpecFail == Init /\ [][NextFail]_vars

\* ------------------------------------------------------------------ SpecPi
\* The Raspberry Pi client (src/RasberryPiApp/pi_client.py) on a fresh
\* install, talking to the backend above.  `up` says whether its requests
\* reach the server; a request that does not raises inside the client's
\* try / except and is logged.

\* the model file on the Pi's disk: none yet, or what was written to it
NoFile == [missing |-> TRUE]
\* a file holding the bytes of an uploaded artifact
ArtifactFile(bytes) == [tflite |-> bytes]
\* a file holding the body of an HTTP response, as response.iter_content gives it
BodyFile(body) == [json |-> body]

\* the arguments of a call of _download_model that is under way, or none
NoDownload == [model_id |-> NoModel, metadata |-> NoMetadata]

\* PiClassifier.__init__ and start(): the state of a client whose
\* _load_or_register_device returned device_id.  interpreter is the id of
\* the model from whose file self.interpreter was built, NoModel for None.
Started(device_id) ==
  [pc |-> "loop",
   device_id |-> device_id,
   current_model_id |-> NoModel,
   current_metadata |-> NoMetadata,
   model_file |-> NoFile,
   interpreter |-> NoModel,
   is_running |-> TRUE,
   pending |-> NoDownload,
   heartbeat_ok |-> FALSE]

\* _load_interpreter: tflite.Interpreter(model_path) accepts a TFLite
\* flatbuffer and raises on any other file
LoadsAsTflite(file) == DOMAIN file = {"tflite"}

\* python pi_client.py: the constructor registers the device (there is no
\* device.json yet), then start() sets is_running and starts the loop
pi_start ==
  /\ pi.pc = "off"
  /\ IF up
     THEN /\ nextDeviceId <= MaxDevices
          /\ devices' = DeviceRepository_create(devices, nextDeviceId, "pi-1", now)
          /\ nextDeviceId' = nextDeviceId + 1
          /\ last' = Response("register_device", 200,
                              [device_id |-> nextDeviceId])
          /\ pi' = Started(nextDeviceId)
     ELSE /\ UNCHANGED <<devices, nextDeviceId, last>>
          /\ pi' = Started(NoDevice)
  /\ UNCHANGED <<models, results, nextModelId, now, inflight, s3, up, desk>>

\* the model file that current_model.json of an earlier run points to: it is
\* gone, or it is a model file that loads
RecordedFiles == {NoFile, ArtifactFile("tflite-a")}

\* python pi_client.py on an install that holds device.json with device_id
\* and current_model.json with model_id: _load_current_model takes the
\* recorded model and builds the interpreter when the recorded file exists
pi_restart(device_id, model_id, file) ==
  /\ pi.pc = "off"
  /\ device_id \in DOMAIN devices
  /\ model_id \in DOMAIN models
  /\ pi' = [Started(device_id) EXCEPT
              !.current_model_id = model_id,
              !.current_metadata = models[model_id].model_metadata,
              !.model_file = file,
              !.interpreter = IF file # NoFile /\ LoadsAsTflite(file)
                              THEN model_id ELSE NoModel]
  /\ UNCHANGED <<db, now, last, inflight, s3, up, desk>>

\* _classification_loop: `if self.interpreter: capture_and_classify()`, for
\* a capture whose confidence reaches the threshold: _upload_result posts
\* the result under current_model_id
pi_capture_and_classify ==
  /\ pi.pc = "loop"
  /\ pi.interpreter # NoModel
  /\ pi.device_id # NoDevice
  /\ pi.current_model_id # NoModel
  /\ up
  /\ upload_result(pi.device_id, pi.current_model_id)

\* PiClassifier.heartbeat up to the call of _download_model
pi_heartbeat ==
  /\ pi.pc = "loop"
  /\ IF pi.device_id = NoDevice \/ ~up
     THEN UNCHANGED <<devices, last, pi>>
     ELSE LET r == DeviceService_update_heartbeat(
                      devices, models, pi.device_id,
                      IF pi.is_running THEN "running" ELSE "idle", now)
          IN /\ devices' = r.devices
             /\ last' = Response("device_heartbeat",
                                 IF r.ok THEN 200 ELSE 404, r.body)
             /\ pi' = IF ~r.ok
                      THEN pi
                      ELSE IF /\ r.body.should_download
                              /\ r.body.model_id # pi.current_model_id
                      THEN [pi EXCEPT !.heartbeat_ok = TRUE,
                                      !.pc = "downloading",
                                      !.pending =
                                          [model_id |-> r.body.model_id,
                                           metadata |-> r.body.metadata]]
                      ELSE [pi EXCEPT !.heartbeat_ok = TRUE]
  /\ UNCHANGED <<models, results, nextDeviceId, nextModelId, now, inflight,
                 s3, up, desk>>

\* PiClassifier._download_model(model_id, metadata): GET
\* /api/models/<model_id>/download, and on 200 the body of that response is
\* written to the model file
pi_download_model ==
  /\ pi.pc = "downloading"
  /\ IF ~up
     THEN /\ pi' = [pi EXCEPT !.pc = "loop", !.pending = NoDownload]
          /\ UNCHANGED last
     ELSE LET model_id == pi.pending.model_id
              r == ModelService_get_download_url(models, model_id)
              file == BodyFile(r.body)
          IN /\ last' = Response("download_model", r.http, r.body)
             /\ pi' = IF r.http # 200
                      THEN [pi EXCEPT !.pc = "loop", !.pending = NoDownload]
                      ELSE [pi EXCEPT
                              !.pc = "loop",
                              !.pending = NoDownload,
                              !.model_file = file,
                              !.current_model_id = model_id,
                              !.current_metadata = pi.pending.metadata,
                              !.interpreter = IF LoadsAsTflite(file)
                                              THEN model_id ELSE @]
  /\ UNCHANGED <<db, now, inflight, s3, up, desk>>

\* the network between the Pi and the server goes away and comes back
net_down ==
  /\ up
  /\ up' = FALSE
  /\ UNCHANGED <<db, now, last, inflight, s3, pi, desk>>

net_up ==
  /\ ~up
  /\ up' = TRUE
  /\ UNCHANGED <<db, now, last, inflight, s3, pi, desk>>

NextPi ==
  \/ Tick
  \/ pi_start
  \/ \E d \in DeviceIds, m \in ModelIds, file \in RecordedFiles :
       pi_restart(d, m, file)
  \/ pi_heartbeat
  \/ pi_download_model
  \/ pi_capture_and_classify
  \/ \E n \in DeviceNames : register_device(n)
  \/ net_down
  \/ net_up
  \/ \E f \in ModelFiles : upload_model(f, "meta-a.json", "ok")
  \/ \E d \in DeviceIds, m \in ModelIds \cup {NoModel} : set_device_model(d, m)
  \/ \E m \in ModelIds : delete_model(m, FALSE, "ok")

SpecPi == Init /\ [][NextPi]_vars

\* the classification loop runs for as long as is_running: each of its
\* steps is taken eventually
SpecPiLive ==
  SpecPi /\ WF_vars(pi_heartbeat) /\ WF_vars(pi_download_model)

\* ----------------------------------------------------------- SpecPiThreads
\* One PiClassifier object whose start() and stop() are called in any order,
\* and the threads start() creates, each running _classification_loop one
\* statement at a time.  Here pi holds the fields of the object and, in
\* threads, where each loop thread is.

\* a thread that start() has just created
NewThread == [at |-> "check", pending |-> NoDownload]

\* PiClassifier.__init__ on a fresh install, before start() is called
Constructed(device_id) ==
  [pc |-> "constructed",
   device_id |-> device_id,
   current_model_id |-> NoModel,
   current_metadata |-> NoMetadata,
   model_file |-> NoFile,
   interpreter |-> NoModel,
   is_running |-> FALSE,
   camera |-> FALSE,
   threads |-> <<>>]

\* the threads that are inside an iteration of the loop: between the test of
\* `while self.is_running` and the sleep
Iterating(p) ==
  {t \in DOMAIN p.threads : p.threads[t].at \in {"heartbeat", "downloading",
                                                  "classify"}}

\* classifier = PiClassifier(...): registers the device
pi_construct ==
  /\ pi.pc = "off"
  /\ IF up
     THEN /\ nextDeviceId <= MaxDevices
          /\ devices' = DeviceRepository_create(devices, nextDeviceId, "pi-1", now)
          /\ nextDeviceId' = nextDeviceId + 1
          /\ last' = Response("register_device", 200,
                              [device_id |-> nextDeviceId])
          /\ pi' = Constructed(nextDeviceId)
     ELSE /\ UNCHANGED <<devices, nextDeviceId, last>>
          /\ pi' = Constructed(NoDevice)
  /\ UNCHANGED <<models, results, nextModelId, now, inflight, s3, up, desk>>

\* classifier.start(): returns when is_running is set; otherwise opens the
\* camera, sets is_running and starts a thread on _classification_loop
pi_call_start ==
  /\ pi.pc = "constructed"
  /\ ~pi.is_running
  /\ Len(pi.threads) < MaxLoopThreads
  /\ pi' = [pi EXCEPT !.camera = TRUE,
                      !.is_running = TRUE,
                      !.threads = Append(@, NewThread)]
  /\ UNCHANGED <<db, now, last, inflight, s3, up, desk>>

\* classifier.stop(): clears is_running and releases the camera; it does not
\* wait for the thread
pi_call_stop ==
  /\ pi.pc = "constructed"
  /\ pi' = [pi EXCEPT !.is_running = FALSE, !.camera = FALSE]
  /\ UNCHANGED <<db, now, last, inflight, s3, up, desk>>

\* _classification_loop: `while self.is_running:`
loop_check(t) ==
  /\ pi.pc = "constructed"
  /\ t \in DOMAIN pi.threads
  /\ pi.threads[t].at = "check"
  /\ pi' = [pi EXCEPT !.threads[t].at =
                        IF pi.is_running THEN "heartbeat" ELSE "done"]
  /\ UNCHANGED <<db, now, last, inflight, s3, up, desk>>

\* _classification_loop: self.heartbeat(), up to the call of _download_model
loop_heartbeat(t) ==
  /\ pi.pc = "constructed"
  /\ t \in DOMAIN pi.threads
  /\ pi.threads[t].at = "heartbeat"
  /\ IF pi.device_id = NoDevice \/ ~up
     THEN /\ pi' = [pi EXCEPT !.threads[t].at = "classify"]
          /\ UNCHANGED <<devices, last>>
     ELSE LET r == DeviceService_update_heartbeat(
                      devices, models, pi.device_id,
                      IF pi.is_running THEN "running" ELSE "idle", now)
          IN /\ devices' = r.devices
             /\ last' = Response("device_heartbeat",
                                 IF r.ok THEN 200 ELSE 404, r.body)
             /\ pi' = IF /\ r.ok
                         /\ r.body.should_download
                         /\ r.body.model_id # pi.current_model_id
                      THEN [pi EXCEPT !.threads[t] =
                              [at |-> "downloading",
                               pending |-> [model_id |-> r.body.model_id,
                                            metadata |-> r.body.metadata]]]
                      ELSE [pi EXCEPT !.threads[t].at = "classify"]
  /\ UNCHANGED <<models, results, nextDeviceId, nextModelId, now, inflight,
                 s3, up, desk>>

\* the call of _download_model inside heartbeat (see pi_download_model)
loop_download_model(t) ==
  /\ pi.pc = "constructed"
  /\ t \in DOMAIN pi.threads
  /\ pi.threads[t].at = "downloading"
  /\ IF ~up
     THEN /\ pi' = [pi EXCEPT !.threads[t] =
                                [at |-> "classify", pending |-> NoDownload]]
          /\ UNCHANGED last
     ELSE LET model_id == pi.threads[t].pending.model_id
              r == ModelService_get_download_url(models, model_id)
              file == BodyFile(r.body)
          IN /\ last' = Response("download_model", r.http, r.body)
             /\ pi' = IF r.http # 200
                      THEN [pi EXCEPT !.threads[t] =
                              [at |-> "classify", pending |-> NoDownload]]
                      ELSE [pi EXCEPT
                              !.threads[t] =
                                [at |-> "classify", pending |-> NoDownload],
                              !.model_file = file,
                              !.current_model_id = model_id,
                              !.current_metadata =
                                pi.threads[t].pending.metadata,
                              !.interpreter = IF LoadsAsTflite(file)
                                              THEN model_id ELSE @]
  /\ UNCHANGED <<db, now, inflight, s3, up, desk>>

\* _classification_loop: `if self.interpreter: self.capture_and_classify()`.
\* self.camera.read() raises when stop() has set camera to None, and the
\* exception is caught inside capture_and_classify.
loop_classify(t) ==
  /\ pi.pc = "constructed"
  /\ t \in DOMAIN pi.threads
  /\ pi.threads[t].at = "classify"
  /\ pi' = [pi EXCEPT !.threads[t].at = "sleep"]
  /\ IF \/ pi.interpreter = NoModel
        \/ ~pi.camera
        \/ pi.device_id = NoDevice
        \/ pi.current_model_id = NoModel
        \/ ~up
     THEN UNCHANGED <<devices, results, last>>
     ELSE LET r == ResultService_create_result(
                      devices, models, results, pi.device_id,
                      pi.current_model_id, now)
          IN /\ r.success => Len(results) < MaxResults
             /\ devices' = r.devices
             /\ results' = r.results
             /\ last' = Response("upload_result",
                           IF r.success THEN 200 ELSE NotFoundOr400(r.error),
                           IF r.success THEN [result_id |-> Len(r.results)]
                                        ELSE Error(r.error))
  /\ UNCHANGED <<models, nextDeviceId, nextModelId, now, inflight, s3, up, desk>>

\* _classification_loop: time.sleep(self.capture_interval) has returned
loop_sleep(t) ==
  /\ pi.pc = "constructed"
  /\ t \in DOMAIN pi.threads
  /\ pi.threads[t].at = "sleep"
  /\ pi' = [pi EXCEPT !.threads[t].at = "check"]
  /\ UNCHANGED <<db, now, last, inflight, s3, up, desk>>

NextPiThreads ==
  \/ pi_construct
  \/ pi_call_start
  \/ pi_call_stop
  \/ \E t \in 1..MaxLoopThreads :
       \/ loop_check(t)
       \/ loop_heartbeat(t)
       \/ loop_download_model(t)
       \/ loop_classify(t)
       \/ loop_sleep(t)
  \/ \E f \in ModelFiles : upload_model(f, "meta-a.json", "ok")
  \/ \E d \in DeviceIds, m \in ModelIds \cup {NoModel} : set_device_model(d, m)

SpecPiThreads == Init /\ [][NextPiThreads]_vars

\* ---------------------------------------------------------------- SpecRace
\* One set_model request and one soft delete-model request, each running its
\* statements one at a time against the committed tables (the default READ
\* COMMITTED isolation; neither takes a row lock before its commit).  The
\* session keeps the rows as it loaded them and a commit writes the
\* attributes whose value differs from the loaded one.

\* DeviceService.set_device_model: ModelRepository.get_by_id(model_id)
set_model_check(device_id, model_id) ==
  /\ asg.pc = "idle"
  /\ IF model_id # NoModel /\ ~ModelRepository_get_by_id(models, model_id)
     THEN /\ last' = Response("set_device_model", 404, Error("Model not found"))
          /\ UNCHANGED asg
     ELSE /\ asg' = [pc |-> "model_checked", device_id |-> device_id,
                     model_id |-> model_id]
          /\ UNCHANGED last
  /\ UNCHANGED <<db, now, del, outside, desk>>

\* DeviceRepository.update_model: the query for the active device
set_model_load ==
  /\ asg.pc = "model_checked"
  /\ IF ~ActiveDevice(devices, asg.device_id)
     THEN /\ last' = Response("set_device_model", 404, Error("Device not found"))
          /\ asg' = Idle
     ELSE /\ asg' = [pc |-> "device_loaded", device_id |-> asg.device_id,
                     model_id |-> asg.model_id,
                     loaded |-> devices[asg.device_id].current_model_id]
          /\ UNCHANGED last
  /\ UNCHANGED <<db, now, del, outside, desk>>

\* DeviceRepository.update_model: the assignments and db.session.commit().
\* The UPDATE fails when the device row is gone, or when it sets
\* current_model_id to a model whose row is gone (the foreign key).
set_model_commit ==
  /\ asg.pc = "device_loaded"
  /\ LET d == asg.device_id
         m == asg.model_id
         writes_model == asg.loaded # m
     IN IF d \notin DOMAIN devices
        THEN /\ last' = Response("set_device_model", 400, Error("StaleDataError"))
             /\ UNCHANGED devices
        ELSE IF writes_model /\ m # NoModel /\ m \notin DOMAIN models
        THEN /\ last' = Response("set_device_model", 400, Error("IntegrityError"))
             /\ UNCHANGED devices
        ELSE /\ devices' = [devices EXCEPT
                              ![d].current_model_id = IF writes_model THEN m ELSE @,
                              ![d].last_active = now]
             /\ last' = Response("set_device_model", 200, Error(""))
  /\ asg' = Idle
  /\ UNCHANGED <<models, results, nextDeviceId, nextModelId, now, del, outside, desk>>

\* ModelRepository.delete: Model.query.get(model_id)
delete_model_get(model_id) ==
  /\ del.pc = "idle"
  /\ IF model_id \notin DOMAIN models
     THEN /\ last' = Response("delete_model", 404,
                              Error("Model not found or could not be deleted"))
          /\ UNCHANGED del
     ELSE /\ del' = [pc |-> "model_loaded", model_id |-> model_id,
                     was_active |-> models[model_id].is_active]
          /\ UNCHANGED last
  /\ UNCHANGED <<db, now, asg, outside, desk>>

\* ModelRepository.delete: Device.query.filter_by(current_model_id=model_id).all()
delete_model_sweep ==
  /\ del.pc = "model_loaded"
  /\ del' = [pc |-> "devices_loaded", model_id |-> del.model_id,
             was_active |-> del.was_active,
             swept |-> AssignedDevices(devices, del.model_id),
             idle |-> {d \in AssignedDevices(devices, del.model_id) :
                         devices[d].status = "idle"}]
  /\ UNCHANGED <<db, now, last, asg, outside, desk>>

\* a faulty variant: the sweep is committed on its own, before the model's flag
delete_model_commit_sweepOnly ==
  /\ del.pc = "devices_loaded"
  /\ IF del.swept \ DOMAIN devices # {}
     THEN /\ last' = Response("delete_model", 404, Error("StaleDataError"))
          /\ UNCHANGED devices
     ELSE /\ devices' = Unassign(devices, del.swept)
          /\ last' = Response("delete_model", 200, Error(""))
  /\ del' = Idle
  /\ UNCHANGED <<models, results, nextDeviceId, nextModelId, now, asg, outside, desk>>

\* ModelRepository.delete: the assignments and db.session.commit().
\* The commit fails when a row it updates is gone.
delete_model_commit ==
  /\ del.pc = "devices_loaded"
  /\ LET m == del.model_id
     IN IF \/ del.swept \ DOMAIN devices # {}
           \/ del.was_active /\ m \notin DOMAIN models
        THEN /\ last' = Response("delete_model", 404, Error("StaleDataError"))
             /\ UNCHANGED <<devices, models>>
        ELSE /\ devices' = [d \in DOMAIN devices |->
                  IF d \in del.swept
                  THEN [devices[d] EXCEPT
                          !.current_model_id = NoModel,
                          !.status = IF d \in del.idle THEN @ ELSE "idle"]
                  ELSE devices[d]]
             /\ models' = IF del.was_active
                          THEN [models EXCEPT ![m].is_active = FALSE]
                          ELSE models
             /\ last' = Response("delete_model", 200, Error(""))
  /\ del' = Idle
  /\ UNCHANGED <<results, nextDeviceId, nextModelId, now, asg, outside, desk>>

\* whole requests run between the statements of the two requests above
NextRace ==
  \/ \E n \in DeviceNames : register_device(n)
  \/ \E f \in ModelFiles : upload_model(f, "meta-a.json", "ok")
  \/ \E d \in DeviceIds, s \in StatusInputs : device_heartbeat(d, s)
  \/ \E m \in ModelIds : delete_model(m, TRUE, "ok")
  \/ \E d \in DeviceIds, m \in ModelIds \cup {NoModel} : set_model_check(d, m)
  \/ set_model_load
  \/ set_model_commit
  \/ \E m \in ModelIds : delete_model_get(m)
  \/ delete_model_sweep
  \/ delete_model_commit

SpecRace == Init /\ [][NextRace]_vars

\* ------------------------------------------------------------ SpecArtifact
\* Uploads, download grants and deletes of models with files of different
\* names and contents, so that two models can share a bucket key.
ArtifactNames == {"model.tflite", "my model.tflite"}
ArtifactContents == {"tflite-a", "tflite-b"}
ArtifactFiles == [filename : ArtifactNames, bytes : ArtifactContents]

\* what a GET of a pre-signed get_object URL returns: the object under the
\* key the URL was signed for, or S3's NoSuchKey
Fetch(bucket, url) ==
  IF url.get_object \in DOMAIN bucket
  THEN [http |-> 200, content |-> bucket[url.get_object]]
  ELSE [http |-> 404, content |-> "NoSuchKey"]

\* GET /api/models/<model_id>/download
download_model(model_id) ==
  LET r == ModelService_get_download_url(models, model_id)
  IN /\ last' = Response("download_model", r.http, r.body)
     /\ UNCHANGED <<db, now, inflight, outside, desk>>

NextArtifact ==
  \/ \E n \in DeviceNames : register_device(n)
  \/ \E f \in ArtifactFiles, o \in S3Outcomes : upload_model(f, "meta-a.json", o)
  \/ \E m \in ModelIds : download_model(m)
  \/ \E m \in ModelIds, h \in BOOLEAN, o \in S3Outcomes : delete_model(m, h, o)
  \/ \E d \in DeviceIds, m \in ModelIds : upload_result(d, m)

SpecArtifact == Init /\ [][NextArtifact]_vars

\* -------------------------------------------------------------- SpecReplay
\* The requests of Spec with room for a second result row, so that a
\* submission can be sent twice.  The clock stands still: the two
\* submissions carry the same timestamp.
NextReplay ==
  \/ \E n \in DeviceNames : register_device(n)
  \/ \E f \in ModelFiles : upload_model(f, "meta-a.json", "ok")
  \/ \E d \in DeviceIds, m \in ModelIds \cup {NoModel} : set_device_model(d, m)
  \/ \E d \in DeviceIds, st \in StatusInputs : device_heartbeat(d, st)
  \/ \E d \in DeviceIds, h \in BOOLEAN : delete_device(d, h)
  \/ \E m \in ModelIds, h \in BOOLEAN : delete_model(m, h, "ok")
  \/ \E d \in DeviceIds, m \in ModelIds :
       upload_result_within(d, m, MaxReplayResults)

SpecReplay == Init /\ [][NextReplay]_vars

\* two device tables that differ in last_active at most
SameButLastActive(devs1, devs2) ==
  /\ DOMAIN devs1 = DOMAIN devs2
  /\ \A d \in DOMAIN devs1 :
       [devs1[d] EXCEPT !.last_active = 0] = [devs2[d] EXCEPT !.last_active = 0]

\* ------------------------------------------------------------- SpecDesktop
\* The desktop application's ApiService
\* (src/DesktopApp/app/services/api_service.py) and its workers
\* (worker_service.py).  An endpoint is the sequence of its path segments:
\* 'api/devices/d1' is <<"api", "devices", "d1">>.  The calls run on the GUI
\* thread, each worker runs _handle_request on a pool thread, and its
\* finished signal is handled on the GUI thread afterwards.
DeskDeviceIds == {"d1"}
DeskModelIds == {"m1"}
\* self.retry_delay
retry_delay == 60
\* params None, and str({'hard': 'true'})
NoParams == "<none>"
HardParams == "{'hard': 'true'}"
\* how the server answers a request: a 2xx reply with a JSON object, a 4xx
\* reply, or no reply (requests.exceptions.ConnectionError / Timeout)
ServerOutcomes == {"200", "404", "unreachable"}

\* pattern in endpoint, for patterns made of whole segments
Contains(endpoint, pattern) ==
  \E i \in 0..(Len(endpoint) - Len(pattern)) :
    SubSeq(endpoint, i + 1, i + Len(pattern)) = pattern

\* next((v for k, v in self.cache_lifetime.items() if k in base_endpoint), 0)
cache_lifetime(base_endpoint) ==
  IF Contains(base_endpoint, <<"api", "models">>) THEN 300
  ELSE IF Contains(base_endpoint, <<"api", "devices">>) THEN 30
  ELSE IF Contains(base_endpoint, <<"api", "results">>) THEN 30
  ELSE 0

\* cache_key = endpoint, plus str(params) when params are given
CacheKey(endpoint, params) == [endpoint |-> endpoint, params |-> params]

\* the JSON object the server sends back for a request
ReplyTo(endpoint, method) == [method |-> method, endpoint |-> endpoint]

\* ApiService._check_cache: whether the call is answered from the cache
check_cache(svc, cache_key) ==
  /\ cache_lifetime(cache_key.endpoint) # 0
  /\ cache_key \in DOMAIN svc.cache
  /\ svc.time - svc.cache[cache_key].timestamp < cache_lifetime(cache_key.endpoint)

FreeWorkers(svc) == {i \in 1..MaxWorkers : svc.workers[i] = NoWorker}

\* ApiService._execute_in_thread (skip_cache is passed by no caller)
execute_in_thread(svc, endpoint, method, params) ==
  LET cache_key == CacheKey(endpoint, params)
  IN IF check_cache(svc, cache_key)
     THEN [svc EXCEPT !.signal = [endpoint |-> endpoint, success |-> TRUE,
                                  data |-> svc.cache[cache_key].data]]
     ELSE LET i == CHOOSE i \in FreeWorkers(svc) : TRUE
          IN [svc EXCEPT !.workers[i] =
                [state |-> "queued", endpoint |-> endpoint, method |-> method]]

\* the call can run: it is answered from the cache or the pool takes a worker
CanExecute(svc, endpoint, params) ==
  check_cache(svc, CacheKey(endpoint, params)) \/ FreeWorkers(svc) # {}

\* for key in list(self.cache.keys()): if <pattern> in key: del self.cache[key]
ClearCache(svc, patterns) ==
  LET kept == {k \in DOMAIN svc.cache :
                 \A p \in patterns : ~Contains(k.endpoint, p)}
  IN [svc EXCEPT !.cache = [k \in kept |-> svc.cache[k]]]

DeskUnchanged ==
  UNCHANGED <<db, now, last, inflight, s3, pi, up>>

ApiService_get_devices ==
  /\ CanExecute(desk, <<"api", "devices">>, NoParams)
  /\ desk' = execute_in_thread(desk, <<"api", "devices">>, "GET", NoParams)
  /\ DeskUnchanged

ApiService_get_device(device_id) ==
  /\ CanExecute(desk, <<"api", "devices", device_id>>, NoParams)
  /\ desk' = execute_in_thread(desk, <<"api", "devices", device_id>>, "GET", NoParams)
  /\ DeskUnchanged

ApiService_get_model(model_id) ==
  /\ CanExecute(desk, <<"api", "models", model_id>>, NoParams)
  /\ desk' = execute_in_thread(desk, <<"api", "models", model_id>>, "GET", NoParams)
  /\ DeskUnchanged

ApiService_delete_device(device_id, hard_delete) ==
  LET endpoint == <<"api", "devices", device_id>>
      params == IF hard_delete THEN HardParams ELSE NoParams
  IN /\ CanExecute(desk, endpoint, params)
     /\ desk' = ClearCache(execute_in_thread(desk, endpoint, "DELETE", params),
                           {<<"api", "devices">>})
     /\ DeskUnchanged

ApiService_delete_model(model_id, hard_delete) ==
  LET endpoint == <<"api", "models", model_id>>
      params == IF hard_delete THEN HardParams ELSE NoParams
  IN /\ CanExecute(desk, endpoint, params)
     /\ desk' = ClearCache(execute_in_thread(desk, endpoint, "DELETE", params),
                           {<<"api", "models">>, <<"api", "devices">>})
     /\ DeskUnchanged

ApiService_register_device ==
  LET endpoint == <<"api", "devices", "register">>
  IN /\ CanExecute(desk, endpoint, NoParams)
     /\ desk' = ClearCache(execute_in_thread(desk, endpoint, "POST", NoParams),
                           {<<"api", "devices">>})
     /\ DeskUnchanged

ApiService_set_device_model(device_id) ==
  LET endpoint == <<"api", "devices", device_id, "set_model">>
  IN /\ CanExecute(desk, endpoint, NoParams)
     /\ desk' = ClearCache(execute_in_thread(desk, endpoint, "POST", NoParams),
                           {<<"api", "devices">>, <<"api", "results">>})
     /\ DeskUnchanged

\* the retry block at the head of _handle_request
RetryBlocked(svc) ==
  /\ svc.connection_error
  /\ svc.last_error_time # NoTime
  /\ svc.time - svc.last_error_time < retry_delay

\* ApiService._handle_request: returns [svc, result, sent], sent telling
\* whether an HTTP request went out
handle_request(svc, endpoint, method, outcome) ==
  IF RetryBlocked(svc)
  THEN [svc |-> svc, result |-> [error_type |-> "ConnectionBlocked"], sent |-> FALSE]
  ELSE IF outcome = "unreachable"
  THEN [svc |-> [svc EXCEPT !.connection_error = TRUE, !.last_error_time = svc.time],
        result |-> [error_type |-> "ConnectionError"], sent |-> TRUE]
  ELSE IF outcome = "404"
  \* the flags are reset when the response arrives, then raise_for_status()
  \* raises HTTPError, a RequestException
  THEN [svc |-> [svc EXCEPT !.connection_error = TRUE, !.last_error_time = svc.time],
        result |-> [error_type |-> "HTTPError"], sent |-> TRUE]
  ELSE [svc |-> [svc EXCEPT !.connection_error = FALSE, !.last_error_time = NoTime],
        result |-> ReplyTo(endpoint, method), sent |-> TRUE]

\* isinstance(result, dict) and result.get('error_type')
IsErrorInfo(result) == "error_type" \in DOMAIN result

\* ApiWorker.run on a pool thread
ApiWorker_run(i, outcome) ==
  /\ desk.workers[i].state = "queued"
  /\ LET w == desk.workers[i]
         r == handle_request(desk, w.endpoint, w.method, outcome)
     IN desk' = [r.svc EXCEPT !.workers[i] =
                   [state |-> "finished", endpoint |-> w.endpoint,
                    success |-> ~IsErrorInfo(r.result), data |-> r.result,
                    sent |-> r.sent]]
  /\ DeskUnchanged

\* any(x in endpoint for x in ['create', 'upload', 'delete']); no segment
\* used here holds one of the words inside a longer segment
NamesMutation(endpoint) ==
  \E i \in 1..Len(endpoint) : endpoint[i] \in {"create", "upload", "delete"}

\* ApiService._handle_request_finished, the slot of the worker's finished
\* signal (every reply here is a JSON object, a dict)
handle_request_finished(i) ==
  /\ desk.workers[i].state = "finished"
  /\ LET w == desk.workers[i]
         cache_key == CacheKey(w.endpoint, NoParams)
         entry == [data |-> w.data, timestamp |-> desk.time]
         cached == IF w.success /\ ~NamesMutation(w.endpoint)
                   THEN [k \in DOMAIN desk.cache \cup {cache_key} |->
                           IF k = cache_key THEN entry ELSE desk.cache[k]]
                   ELSE desk.cache
     IN desk' = [desk EXCEPT !.cache = cached,
                             !.workers[i] = NoWorker,
                             !.signal = [endpoint |-> w.endpoint,
                                         success |-> w.success, data |-> w.data]]
  /\ DeskUnchanged

\* the desktop's clock advances
desk_tick ==
  /\ desk.time + ClockStep <= MaxClock
  /\ desk' = [desk EXCEPT !.time = @ + ClockStep]
  /\ DeskUnchanged

NextDesktop ==
  \/ ApiService_get_devices
  \/ \E d \in DeskDeviceIds : ApiService_get_device(d)
  \/ \E m \in DeskModelIds : ApiService_get_model(m)
  \/ \E d \in DeskDeviceIds, h \in BOOLEAN : ApiService_delete_device(d, h)
  \/ \E m \in DeskModelIds, h \in BOOLEAN : ApiService_delete_model(m, h)
  \/ ApiService_register_device
  \/ \E d \in DeskDeviceIds : ApiService_set_device_model(d)
  \/ \E i \in 1..MaxWorkers, o \in ServerOutcomes : ApiWorker_run(i, o)
  \/ \E i \in 1..MaxWorkers : handle_request_finished(i)
  \/ desk_tick

SpecDesktop == Init /\ [][NextDesktop]_vars

\* ------------------------------------------------------------------ claims
\* a device row references a model that is inactive or has no row
Orphaned(devs, mods, d) ==
  /\ devs[d].current_model_id # NoModel
  /\ ~ModelRepository_get_by_id(mods, devs[d].current_model_id)

\* C1: when a delete of model m (soft or hard) succeeds, every device row
\* that referenced m when the delete ran, active or soft-deleted, is
\* afterwards unassigned and has status 'idle'.
C1_DeleteCascade ==
  [][\A m \in ModelIds, h \in BOOLEAN, o \in S3Outcomes :
       (last' = Response("delete_model", 200, Error("")) /\ delete_model(m, h, o)) =>
         \A d \in DOMAIN devices :
           devices[d].current_model_id = m =>
             /\ d \in DOMAIN devices'
             /\ devices'[d].current_model_id = NoModel
             /\ devices'[d].status = "idle"]_vars

\* a delete has just succeeded and a soft-deleted device, whose status was
\* 'inactive', has been swept to 'idle'
C1_Witness ==
  /\ last = Response("delete_model", 200, Error(""))
  /\ \E d \in DOMAIN devices :
       /\ ~devices[d].is_active
       /\ devices[d].status = "idle"
       /\ devices[d].current_model_id = NoModel

\* C2: with whole requests run one after the other, no device row references
\* a model that is inactive or no longer exists.
C2_NoOrphan ==
  \A d \in DOMAIN devices : ~Orphaned(devices, models, d)

\* a device is assigned while a model it was assigned before has been deleted
C2_Witness ==
  /\ \E d \in DOMAIN devices : devices[d].current_model_id # NoModel
  /\ \E m \in 1..(nextModelId - 1) : ~ModelRepository_get_by_id(models, m)
  /\ last = Response("set_device_model", 200, Error(""))

\* C3: when a set_model request and a delete-model request have run
\* concurrently and both have finished, no device references a deleted
\* (inactive or removed) model.
C3_NoOrphanAfterRace ==
  (asg.pc = "idle" /\ del.pc = "idle") =>
    \A d \in DOMAIN devices : ~Orphaned(devices, models, d)

\* C4: a heartbeat of an active device replies 200; with the device
\* unassigned the reply is (null, false, null), and with the device assigned
\* to an active model it is (that model, true, the model's metadata), on every
\* heartbeat.
C4_HeartbeatReply ==
  [][\A d \in DeviceIds, s \in StatusInputs :
       (ActiveDevice(devices, d) /\ last'.op = "device_heartbeat"
          /\ device_heartbeat(d, s)) =>
         LET m == devices[d].current_model_id
         IN /\ last'.http = 200
            /\ m = NoModel =>
                 last'.body = [model_id |-> NoModel, should_download |-> FALSE,
                               metadata |-> NoMetadata]
            /\ (m # NoModel /\ ModelRepository_get_by_id(models, m)) =>
                 last'.body = [model_id |-> m, should_download |-> TRUE,
                               metadata |-> models[m].model_metadata]]_vars

\* a heartbeat has told a device, whose status is already 'running', to
\* download its model
C4_Witness ==
  /\ last.op = "device_heartbeat"
  /\ last.http = 200
  /\ last.body.should_download
  /\ \E d \in DOMAIN devices :
       /\ devices[d].current_model_id = last.body.model_id
       /\ devices[d].status = "running"

C6_HeartbeatUnknown ==
  [][\A d \in DeviceIds, s \in StatusInputs :
       (~ActiveDevice(devices, d) /\ last'.op = "device_heartbeat"
          /\ device_heartbeat(d, s)) =>
         /\ last' = Response("device_heartbeat", 404, Error("Device not found"))
         /\ devices' = devices]_vars

\* every device id has a row, so the heartbeat that has just replied 404 was
\* one of a soft-deleted device
C6_Witness ==
  /\ last = Response("device_heartbeat", 404, Error("Device not found"))
  /\ DOMAIN devices = DeviceIds

\* C7: set_model fails with 'Model not found' for a non-null model id that is
\* missing or inactive, whatever the device; otherwise with 'Device not
\* found' for a missing or soft-deleted device; a failure changes no
\* assignment; a success sets the assignment of that device and of no other.
C7_Assign ==
  [][\A d \in DeviceIds, m \in ModelIds \cup {NoModel} :
       (last'.op = "set_device_model" /\ set_device_model(d, m)) =>
         IF m # NoModel /\ ~ModelRepository_get_by_id(models, m)
         THEN /\ last' = Response("set_device_model", 404, Error("Model not found"))
              /\ devices' = devices
         ELSE IF ~ActiveDevice(devices, d)
         THEN /\ last' = Response("set_device_model", 404, Error("Device not found"))
              /\ devices' = devices
         ELSE /\ last'.http = 200
              /\ DOMAIN devices' = DOMAIN devices
              /\ devices'[d].current_model_id = m
              /\ \A e \in DOMAIN devices \ {d} :
                   devices'[e].current_model_id = devices[e].current_model_id]_vars

\* no device has a row, and the assign has failed on the model all the same
C7_Witness ==
  /\ last = Response("set_device_model", 404, Error("Model not found"))
  /\ DOMAIN devices = {}

\* C8: a result submission succeeds, adding one row, exactly when the device
\* and the model both have an active row; otherwise it replies 404 and adds
\* no row.
C8_CreateResult ==
  [][\A d \in DeviceIds, m \in ModelIds :
       (last'.op = "upload_result" /\ upload_result(d, m)) =>
         IF ActiveDevice(devices, d) /\ ModelRepository_get_by_id(models, m)
         THEN /\ last'.http = 200
              /\ Len(results') = Len(results) + 1
              /\ SubSeq(results', 1, Len(results)) = results
              /\ results'[Len(results')].device_id = d
              /\ results'[Len(results')].model_id = m
         ELSE /\ last'.http = 404
              /\ results' = results]_vars

\* a result has just been accepted for a model that is not the one assigned
\* to its device
C8_Witness ==
  /\ last.op = "upload_result"
  /\ last.http = 200
  /\ LET r == results[Len(results)]
     IN devices[r.device_id].current_model_id # r.model_id

C10_ListOrderFilterLimit ==
  [][\A d \in DeviceIds \cup {NoDevice}, m \in ModelIds \cup {NoModel},
        l \in Limits :
       (last'.op = "list_results" /\ list_results(d, m, l)) =>
         LET listing == last'.body
         IN /\ \A i, j \in DOMAIN listing :
                 i < j => results[listing[i]].timestamp >= results[listing[j]].timestamp
            /\ \A k \in DOMAIN listing :
                 /\ d # NoDevice => results[listing[k]].device_id = d
                 /\ m # NoModel => results[listing[k]].model_id = m
            /\ Len(listing) <= l]_vars

\* C11: a delete of a device or of a model, soft or hard, successful or not,
\* leaves the results table as it was, and every result row is still found
\* by its id afterwards.
C11_DeleteKeepsResults ==
  [][(/\ last'.op \in {"delete_device", "delete_model"}
      /\ \/ \E d \in DeviceIds, h \in BOOLEAN : delete_device(d, h)
         \/ \E m \in ModelIds, h \in BOOLEAN, o \in S3Outcomes :
              delete_model(m, h, o)) =>
         /\ results' = results
         /\ \A i \in 1..Len(results) :
              ResultRepository_get_by_id(results', i) = results[i]]_vars

\* a device has just been deleted and a result of a soft-deleted device is
\* still stored
C11_Witness ==
  /\ last = Response("delete_device", 200, Error(""))
  /\ \E i \in 1..Len(results) :
       /\ results[i].device_id \in DOMAIN devices
       /\ ~devices[results[i].device_id].is_active
       /\ ResultRepository_get_by_id(results, i) = results[i]

\* C12: a hard delete of a device, or of a model, that has a row replies 200
\* and removes the row, whether or not results reference it.
C12_HardDeleteRemoves ==
  [][/\ \A d \in DOMAIN devices :
          (last'.op = "delete_device" /\ delete_device(d, TRUE)) =>
            (last'.http = 200 /\ d \notin DOMAIN devices')
     /\ \A m \in DOMAIN models :
          (last'.op = "delete_model" /\ delete_model(m, TRUE, "ok")) =>
            (last'.http = 200 /\ m \notin DOMAIN models')]_vars

\* C13: a model upload replies 200 and commits a Model row only when the
\* metadata parsed and the artifact is stored under the key of the row; when
\* the upload to S3 fails or the metadata does not parse it replies 500 and
\* the models table is as before.
C13_UploadThenRecord ==
  [][\A f \in ModelFiles, md \in MetadataFiles, o \in S3Outcomes :
       (last'.op = "upload_model" /\ upload_model(f, md, o)) =>
         IF o = "ok" /\ ~json_loads(md).raised
         THEN /\ last'.http = 200
              /\ DOMAIN models' = DOMAIN models \cup {nextModelId}
              /\ models'[nextModelId].s3_key \in DOMAIN s3'
              /\ s3'[models'[nextModelId].s3_key] = f.bytes
         ELSE /\ last'.http = 500
              /\ models' = models]_vars

\* an upload has failed on S3 and there is no model row at all
C13_Witness ==
  /\ last = Response("upload_model", 500, Error("Failed to upload model to S3"))
  /\ models = <<>>
  /\ s3 = <<>>

\* C14: a hard delete of a model that has a row, during which the removal of
\* the artifact from S3 fails, replies 200, removes the row and unassigns
\* the devices that referenced the model.
C14_HardDeleteBestEffort ==
  [][\A m \in DOMAIN models, o \in S3Outcomes \ {"ok"} :
       (last'.op = "delete_model" /\ delete_model(m, TRUE, o)) =>
         /\ last'.http = 200
         /\ m \notin DOMAIN models'
         /\ \A d \in DOMAIN devices :
              devices[d].current_model_id = m =>
                devices'[d].current_model_id = NoModel]_vars

\* C15: the statements of a delete-model request before its commit change no
\* committed row; its commit either unassigns every swept device and
\* deactivates (or removes) the model in one step, or, when it fails, leaves
\* devices and models as they were.
C15_AtomicCascade ==
  [][/\ (del'.pc # "idle" /\ del' # del) =>
          (devices' = devices /\ models' = models)
     /\ delete_model_commit =>
          IF last'.http = 200
          THEN /\ \A d \in del.swept : devices'[d].current_model_id = NoModel
               /\ ~ModelRepository_get_by_id(models', del.model_id)
          ELSE devices' = devices /\ models' = models
     /\ \A m \in ModelIds :
          (last'.op = "delete_model" /\ delete_model(m, TRUE, "ok")) =>
            IF last'.http = 200
            THEN /\ m \notin DOMAIN models'
                 /\ \A d \in DOMAIN devices :
                      devices[d].current_model_id = m =>
                        devices'[d].current_model_id = NoModel
            ELSE devices' = devices /\ models' = models]_vars

\* a soft delete has just committed: the model is inactive and no device
\* references it
C15_Witness ==
  /\ last = Response("delete_model", 200, Error(""))
  /\ del.pc = "idle"
  /\ devices # <<>>
  /\ \E m \in DOMAIN models :
       /\ ~models[m].is_active
       /\ AssignedDevices(devices, m) = {}

\* C16: a set_model, delete-device, upload-model or delete-model request
\* whose X-API-Key is missing or wrong is answered 401 and changes no device,
\* model or result, and with the configured key its handler runs; register,
\* heartbeat and result submission run, and change the store, whatever the
\* header.
C16_ApiKeyGating ==
  [][\A k \in HeaderValues :
       /\ (k # API_KEY /\ last'.op \in {"set_device_model", "delete_device",
                                         "upload_model", "delete_model"}
             /\ \/ /\ last'.op = "set_device_model"
                   /\ \E d \in DeviceIds, m \in ModelIds \cup {NoModel} :
                        request_set_device_model(k, d, m)
                \/ /\ last'.op = "delete_device"
                   /\ \E d \in DeviceIds, h \in BOOLEAN :
                        request_delete_device(k, d, h)
                \/ /\ last'.op = "upload_model"
                   /\ \E f \in ModelFiles :
                        request_upload_model(k, f, "meta-a.json", "ok")
                \/ /\ last'.op = "delete_model"
                   /\ \E m \in ModelIds, h \in BOOLEAN :
                        request_delete_model(k, m, h, "ok")) =>
            /\ last'.http = 401
            /\ devices' = devices /\ models' = models /\ results' = results
            /\ s3' = s3
       /\ \A d \in DeviceIds, m \in ModelIds :
            (k = API_KEY /\ last'.op = "set_device_model"
               /\ ActiveDevice(devices, d)
               /\ ModelRepository_get_by_id(models, m)
               /\ request_set_device_model(k, d, m)) =>
              (last'.http = 200 /\ devices'[d].current_model_id = m)
       /\ \A n \in DeviceNames :
            (last'.op = "register_device" /\ request_register_device(k, n)) =>
              (last'.http = 200 /\ nextDeviceId \in DOMAIN devices')
       /\ \A d \in DeviceIds :
            (last'.op = "device_heartbeat" /\ ActiveDevice(devices, d)
               /\ devices[d].status # "running"
               /\ request_device_heartbeat(k, d, "running")) =>
              (last'.http = 200 /\ devices'[d].status = "running")
       /\ \A d \in DeviceIds, m \in ModelIds :
            (last'.op = "upload_result" /\ ActiveDevice(devices, d)
               /\ ModelRepository_get_by_id(models, m)
               /\ request_upload_result(k, d, m)) =>
              (last'.http = 200 /\ Len(results') = Len(results) + 1)]_vars

\* a set_model request has just been refused for its key while an active
\* device and an active model exist
C16_Witness ==
  /\ last = Response("set_device_model", 401, Error("Authentication failed"))
  /\ \E d \in DeviceIds : ActiveDevice(devices, d)
  /\ \E m \in ModelIds : ModelRepository_get_by_id(models, m)

\* C17: a heartbeat, set_model, delete or result submission during which the
\* database cannot be reached is answered with a 5xx status.
C17_StoreFailure5xx ==
  [][StoreDown => last'.http \in 500..599]_vars

\* C18: when the Pi downloads a model after a heartbeat told it to, the file
\* it installs holds the bytes of the artifact stored for that model; and a
\* heartbeat whose model_id is the one held locally starts no download.
C18_DownloadInstallsArtifact ==
  [][/\ (pi_download_model /\ pi'.current_model_id # pi.current_model_id) =>
          pi'.model_file =
            ArtifactFile(s3[models[pi'.current_model_id].s3_key])
     /\ (pi_heartbeat /\ last'.op = "device_heartbeat" /\ last'.http = 200
           /\ last'.body.model_id = pi.current_model_id) =>
          pi'.pc = "loop"]_vars

\* C19: a heartbeat of the Pi that is answered "no assignment", right after
\* one that was answered the same, leaves the Pi without local model.
C19_ClearsLocalModel ==
  [][(/\ last = Response("device_heartbeat", 200,
                         [model_id |-> NoModel, should_download |-> FALSE,
                          metadata |-> NoMetadata])
      /\ last' = last
      /\ pi_heartbeat) =>
        pi'.current_model_id = NoModel]_vars

\* C20: if from some point on the server is reachable, a started Pi client
\* eventually completes a heartbeat that is answered 200.
C20_EventuallyHeartbeat ==
  (<>[]up) => [](pi.pc # "off" => <>(pi.pc # "off" /\ pi.heartbeat_ok))

\* C21: when an upload has succeeded, a download grant asked for right away
\* for the new model is given (200), its URL is signed for the bucket key of
\* that model's row, and fetching the URL yields the bytes that were uploaded.
C21_UploadGrantRoundTrip ==
  [][/\ \A f \in ArtifactFiles, o \in S3Outcomes :
          (last'.op = "upload_model" /\ last'.http = 200
             /\ upload_model(f, "meta-a.json", o)) =>
            LET g == ModelService_get_download_url(models', last'.body.model_id)
            IN /\ g.http = 200
               /\ g.body.download_url.get_object =
                    S3Key("meta-a", secure_filename(f.filename))
               /\ Fetch(s3', g.body.download_url) =
                    [http |-> 200, content |-> f.bytes]
     /\ \A m \in ModelIds :
          (last = Response("upload_model", 200, [model_id |-> m])
             /\ download_model(m)) =>
            /\ last'.http = 200
            /\ last'.body.download_url.get_object = models[m].s3_key
            /\ Fetch(s3, last'.body.download_url).http = 200]_vars

\* a grant has just been given for the second model, whose file name had to
\* be secured and whose bytes differ from those of the first model
C21_Witness ==
  /\ last.op = "download_model"
  /\ last.http = 200
  /\ last.body.download_url.get_object = S3Key("meta-a", "my_model.tflite")
  /\ Fetch(s3, last.body.download_url) = [http |-> 200, content |-> "tflite-b"]
  /\ 2 \in DOMAIN models
  /\ models[2].s3_key = last.body.download_url.get_object
  /\ S3Key("meta-a", "model.tflite") \in DOMAIN s3

\* C22: a heartbeat of an active device sets last_active to the current
\* time, sets status to the status of the request whenever the request
\* carries one (any string), leaves status as it was when the request
\* carries none, and leaves current_model_id, device_name and is_active as
\* they were.
C22_TouchDevice ==
  [][\A d \in DeviceIds, st \in StatusInputs :
       (ActiveDevice(devices, d) /\ last'.op = "device_heartbeat"
          /\ device_heartbeat(d, st)) =>
         /\ devices'[d].last_active = now
         /\ st # NoStatus => devices'[d].status = st
         /\ st = NoStatus => devices'[d].status = devices[d].status
         /\ devices'[d].current_model_id = devices[d].current_model_id
         /\ devices'[d].device_name = devices[d].device_name
         /\ devices'[d].is_active = devices[d].is_active]_vars

\* C23: right after a heartbeat of an active device, the same heartbeat sent
\* again, at that time or later, returns the same reply and leaves the
\* devices as they are apart from last_active, and the models and results
\* as they are; a result submission that succeeds adds one row with an id no
\* row had, also when a row with the same device and model exists; and no
\* request changes or removes a result row that exists.
C23_Replay ==
  [][/\ \A d \in DeviceIds, st \in StatusInputs :
          (last'.op = "device_heartbeat" /\ last'.http = 200
             /\ device_heartbeat(d, st)) =>
            \A t \in now..MaxTime :
              LET again == DeviceService_update_heartbeat(devices', models', d, st, t)
              IN /\ again.ok
                 /\ again.body = last'.body
                 /\ SameButLastActive(again.devices, devices')
     /\ \A d \in DeviceIds, m \in ModelIds :
          (last'.op = "upload_result" /\ last'.http = 200
             /\ upload_result_within(d, m, MaxReplayResults)) =>
            /\ Len(results') = Len(results) + 1
            /\ last'.body.result_id \notin DOMAIN results
            /\ results'[last'.body.result_id].device_id = d
            /\ results'[last'.body.result_id].model_id = m
     /\ \A i \in DOMAIN results :
          i \in DOMAIN results' /\ results'[i] = results[i]]_vars

\* the same submission has been accepted twice: two rows of the same device
\* and model, the first one as it was stored
C23_Witness ==
  /\ last = Response("upload_result", 200, [result_id |-> 2])
  /\ Len(results) = 2
  /\ results[1].device_id = results[2].device_id
  /\ results[1].model_id = results[2].model_id
  /\ results[1].timestamp = results[2].timestamp

\* C24: no request turns is_active of a device row or of a model row from
\* false to true; for a soft-deleted device a heartbeat, an assignment and a
\* result submission reply 404 and change nothing; for a soft-deleted model
\* an assignment and a result submission reply 404 and change nothing, and
\* a download grant is refused with 404.
C24_SoftDeleteIrreversible ==
  [][/\ \A d \in DOMAIN devices :
          (~devices[d].is_active /\ d \in DOMAIN devices') =>
            ~devices'[d].is_active
     /\ \A m \in DOMAIN models :
          (~models[m].is_active /\ m \in DOMAIN models') =>
            /\ ~models'[m].is_active
            /\ ModelService_get_download_url(models', m).http = 404
     /\ \A d \in DOMAIN devices :
          ~devices[d].is_active =>
            /\ \A st \in StatusInputs :
                 (last'.op = "device_heartbeat" /\ device_heartbeat(d, st)) =>
                   (last'.http = 404 /\ devices' = devices)
            /\ \A m \in ModelIds \cup {NoModel} :
                 (last'.op = "set_device_model" /\ set_device_model(d, m)) =>
                   (last'.http = 404 /\ devices' = devices)
            /\ \A m \in ModelIds :
                 (last'.op = "upload_result" /\ upload_result(d, m)) =>
                   (last'.http = 404 /\ devices' = devices /\ results' = results)
     /\ \A m \in DOMAIN models :
          ~models[m].is_active =>
            \A d \in DeviceIds :
              /\ (last'.op = "set_device_model" /\ set_device_model(d, m)) =>
                   (last'.http = 404 /\ devices' = devices)
              /\ (last'.op = "upload_result" /\ upload_result(d, m)) =>
                   (last'.http = 404 /\ devices' = devices
                      /\ results' = results)]_vars

\* an assignment has just been refused for its device while a soft-deleted
\* device, a soft-deleted model, an active device and an active model exist
C24_Witness ==
  /\ last = Response("set_device_model", 404, Error("Device not found"))
  /\ \E d \in DOMAIN devices : ~devices[d].is_active
  /\ \E d \in DOMAIN devices : devices[d].is_active
  /\ \E m \in DOMAIN models : ~models[m].is_active
  /\ \E m \in DOMAIN models : models[m].is_active

\* C25: an upload that succeeds stores the uploaded bytes under the key of
\* the new model's row, and no request (an upload of another model with the
\* same project name and file name, a delete of another model, a hard delete
\* that fails) removes or changes the object of a model that is active
\* before and after it: every active model's key always holds the bytes
\* uploaded for that model.
C25_ArtifactInvariant ==
  [][/\ \A f \in ArtifactFiles, o \in S3Outcomes :
          (last'.op = "upload_model" /\ last'.http = 200
             /\ upload_model(f, "meta-a.json", o)) =>
            /\ models'[nextModelId].s3_key \in DOMAIN s3'
            /\ s3'[models'[nextModelId].s3_key] = f.bytes
     /\ \A m \in DOMAIN models :
          (/\ models[m].is_active
           /\ models[m].s3_key \in DOMAIN s3
           /\ m \in DOMAIN models'
           /\ models'[m].is_active) =>
            /\ models'[m].s3_key = models[m].s3_key
            /\ models'[m].s3_key \in DOMAIN s3'
            /\ s3'[models'[m].s3_key] = s3[models[m].s3_key]]_vars

\* C26 as stated: in every reachable state a soft-deleted device has status
\* 'inactive'.
C26_InactiveStatus ==
  \A d \in DOMAIN devices :
    ~devices[d].is_active => devices[d].status = "inactive"

\* C26 amended: a soft delete leaves the device with status 'inactive'; a
\* soft-deleted device has status 'inactive', or 'idle' with no model
\* assigned; and the status of a soft-deleted device changes only to 'idle',
\* by a successful delete of the model it referenced, which unassigns it,
\* or back to 'inactive', by a soft delete of the device sent again.
C26_InactiveOrSwept ==
  [][/\ \A d \in DOMAIN devices' :
          ~devices'[d].is_active =>
            \/ devices'[d].status = "inactive"
            \/ /\ devices'[d].status = "idle"
               /\ devices'[d].current_model_id = NoModel
     /\ \A d \in DOMAIN devices :
          (/\ ~devices[d].is_active
           /\ d \in DOMAIN devices'
           /\ devices'[d].status # devices[d].status) =>
            \/ /\ last' = Response("delete_model", 200, Error(""))
               /\ devices[d].current_model_id # NoModel
               /\ ~ModelRepository_get_by_id(models', devices[d].current_model_id)
               /\ devices'[d].current_model_id = NoModel
               /\ devices'[d].status = "idle"
            \/ /\ last' = Response("delete_device", 200, Error(""))
               /\ devices'[d].status = "inactive"
     /\ \A d \in DeviceIds :
          (last' = Response("delete_device", 200, Error(""))
             /\ delete_device(d, FALSE)) =>
            /\ ~devices'[d].is_active
            /\ devices'[d].status = "inactive"]_vars

\* a model delete has just swept one soft-deleted device to 'idle' while
\* another soft-deleted device keeps its model and its status 'inactive'
C26_Witness ==
  /\ last = Response("delete_model", 200, Error(""))
  /\ \E d, e \in DOMAIN devices :
       /\ ~devices[d].is_active
       /\ devices[d].status = "idle"
       /\ devices[d].current_model_id = NoModel
       /\ ~devices[e].is_active
       /\ devices[e].status = "inactive"
       /\ devices[e].current_model_id # NoModel

\* C27: whenever the Pi client holds a current_model_id and an interpreter,
\* the interpreter was built from the file of that model, and a result the
\* client uploads carries the id of the model whose interpreter produced
\* it; and a heartbeat that names the assigned model while the client's
\* model file is missing or no interpreter is loaded starts a download.
C27_PiModelConsistency ==
  [][/\ (/\ pi'.pc # "off"
         /\ pi'.current_model_id # NoModel
         /\ pi'.interpreter # NoModel) =>
          pi'.interpreter = pi'.current_model_id
     /\ (pi_capture_and_classify /\ last'.op = "upload_result"
           /\ last'.http = 200) =>
          results'[Len(results')].model_id = pi.interpreter
     /\ (/\ pi.pc = "loop"
         /\ pi.model_file = NoFile \/ pi.interpreter = NoModel
         /\ pi_heartbeat
         /\ last'.op = "device_heartbeat"
         /\ last'.http = 200
         /\ last'.body.should_download) =>
          pi'.pc = "downloading"]_vars

\* C28: whatever the order of the start() and stop() calls, at most one
\* loop thread is inside an iteration (heartbeat, download, classification)
\* at any time, and no loop thread sends a heartbeat or captures while
\* is_running is cleared, that is after a stop().
C28_SingleLoop ==
  [][/\ pi'.pc = "constructed" => Cardinality(Iterating(pi')) <= 1
     /\ \A t \in 1..MaxLoopThreads :
          /\ loop_heartbeat(t) => pi.is_running
          /\ (loop_classify(t) /\ pi.interpreter # NoModel) =>
               pi.is_running]_vars

\* C29: a mutation of the desktop ApiService (set_device_model,
\* delete_device, delete_model, register_device) is never answered from the
\* response cache, every such call hands a request to a worker; and the
\* entry under a cache key always holds the reply to a GET of that key's
\* endpoint.
C29_MutationsBypassCache ==
  [][/\ \A d \in DeskDeviceIds, m \in DeskModelIds, h \in BOOLEAN :
          \/ ApiService_set_device_model(d)
          \/ ApiService_delete_device(d, h)
          \/ ApiService_delete_model(m, h)
          \/ ApiService_register_device
          => \E i \in 1..MaxWorkers :
               /\ desk.workers[i] = NoWorker
               /\ desk'.workers[i].state = "queued"
     /\ \A k \in DOMAIN desk'.cache :
          desk'.cache[k].data = ReplyTo(k.endpoint, "GET")]_vars

\* C30: a worker's _handle_request puts the client into the
\* connection-error state only when the server was not reached; after any
\* reply of the server the client is not in the error state; and while the
\* retry block holds, no HTTP request goes out and the result is a
\* ConnectionBlocked error.
C30_RetryBlock ==
  [][\A i \in 1..MaxWorkers, o \in ServerOutcomes :
       ApiWorker_run(i, o) =>
         /\ (~desk.connection_error /\ desk'.connection_error) => o = "unreachable"
         /\ (desk'.workers[i].sent /\ o # "unreachable") => ~desk'.connection_error
         /\ RetryBlocked(desk) =>
              /\ ~desk'.workers[i].sent
              /\ desk'.workers[i].data = [error_type |-> "ConnectionBlocked"]]_vars

====
